---- MODULE Spec2Model ----
(***************************************************************************)
(* Model of src/src/App.tsx, the "Carik Toz Hesaplayici" calculator.       *)
(*                                                                         *)
(* Numbers.  A JavaScript number is modelled as an exact fraction <<n, d>> *)
(* in lowest terms with d > 0; the three non-finite values are the         *)
(* fractions of denominator 0: NaN = <<0,0>>, Infinity = <<1,0>> and       *)
(* -Infinity = <<-1,0>>.  Arithmetic is exact: the rounding of IEEE-754    *)
(* doubles and the sign of zero are not modelled.                          *)
(*                                                                         *)
(* React.  A state setter called in an event handler takes effect in the   *)
(* render that follows the handler; the effect of line 179 runs after that *)
(* render when its dependency charikCount differs (Object.is) from the one *)
(* of the previous render, and before the next event is handled.           *)
(***************************************************************************)
EXTENDS Integers, FiniteSets, Sequences, TLC

\* Largest multiple of 39 a user types into a modal.
MaxMultiple == 3

(***************************************************************************)
(* JavaScript numbers                                                      *)
(***************************************************************************)
Abs(n) == IF n < 0 THEN -n ELSE n

Sign(n) == IF n < 0 THEN -1 ELSE IF n = 0 THEN 0 ELSE 1

RECURSIVE GCD(_, _)
GCD(m, n) == IF n = 0 THEN m ELSE GCD(n, m % n)

\* The number n/d (d of any sign; d = 0 gives NaN or an infinity).
Rat(n, d) ==
    IF d = 0 THEN <<Sign(n), 0>>
    ELSE LET g == GCD(Abs(n), Abs(d))
             s == IF d < 0 THEN -1 ELSE 1
         IN  <<(s * n) \div g, (s * d) \div g>>

Int2Rat(n) == <<n, 1>>

NaN == <<0, 0>>

PosInf == <<1, 0>>

NegInf == <<-1, 0>>

Zero == <<0, 1>>

One == <<1, 1>>

\* isNaN(x)
IsNaN(x) == x = NaN

IsFinite(x) == x[2] # 0

\* x < y (false when either side is NaN)
Lt(x, y) ==
    IF IsNaN(x) \/ IsNaN(y) THEN FALSE
    ELSE IF ~IsFinite(x) /\ ~IsFinite(y) THEN x[1] < y[1]
    ELSE x[1] * y[2] < y[1] * x[2]

\* x * y
Mul(x, y) == Rat(x[1] * y[1], x[2] * y[2])

\* x / y (division by zero gives an infinity, or NaN for 0 / 0)
Div(x, y) ==
    IF IsNaN(x) \/ IsNaN(y) THEN NaN
    ELSE IF y = Zero THEN Rat(x[1], 0)
    ELSE Rat(x[1] * y[2] * Sign(y[1]), x[2] * Abs(y[1]))

\* Math.max(x, y)
MathMax(x, y) ==
    IF IsNaN(x) \/ IsNaN(y) THEN NaN
    ELSE IF Lt(x, y) THEN y ELSE x

\* x + y
Add(x, y) ==
    IF IsNaN(x) \/ IsNaN(y) THEN NaN
    ELSE IF ~IsFinite(x) THEN (IF ~IsFinite(y) /\ x # y THEN NaN ELSE x)
    ELSE IF ~IsFinite(y) THEN y
    ELSE Rat(x[1] * y[2] + y[1] * x[2], x[2] * y[2])

(***************************************************************************)
(* Constants (lines 4-7) and the two calculators (lines 25-80)             *)
(***************************************************************************)
\* Mutant: the second weight mistyped, so the weights sum to 1.01.
ALT_PERCENTAGES_SumOff == [a |-> Rat(50, 100), b |-> Rat(40, 100),
                           c |-> Rat(6, 100),  d |-> Rat(5, 100)]

ALT_PERCENTAGES == [a |-> Rat(50, 100), b |-> Rat(39, 100),
                    c |-> Rat(6, 100),  d |-> Rat(5, 100)]

ALT_TOTAL_PER_CHARIK == Int2Rat(121)

UST_PERCENTAGES == [a |-> Rat(30, 100), b |-> Rat(60, 100),
                    c |-> Rat(6, 100),  d |-> Rat(4, 100)]

UST_TOTAL_PER_CHARIK == Int2Rat(45)

\* keyof TozType
TozKeys == {"a", "b", "c", "d", "total"}

ComponentKeys == {"a", "b", "c", "d"}

\* Mutant: component d takes c's weight.
calculateFromCharikCount_WrongWeight(count, percentages, totalPerCharik) ==
    LET validCount == IF IsNaN(count) \/ Lt(count, Zero) THEN Zero ELSE count
        total == Mul(totalPerCharik, validCount)
    IN  [a |-> Mul(percentages.a, total),
         b |-> Mul(percentages.b, total),
         c |-> Mul(percentages.c, total),
         d |-> Mul(percentages.c, total),
         total |-> total]

calculateFromCharikCount(count, percentages, totalPerCharik) ==
    LET validCount == IF IsNaN(count) \/ Lt(count, Zero) THEN Zero ELSE count
        total == Mul(totalPerCharik, validCount)
    IN  [a |-> Mul(percentages.a, total),
         b |-> Mul(percentages.b, total),
         c |-> Mul(percentages.c, total),
         d |-> Mul(percentages.d, total),
         total |-> total]

\* Mutant: the total of a component edit is value * weight, not value / weight.
calculateFromOneValue_Multiplies(changedKey, changedValue, percentages, totalPerCharikRef) ==
    LET validChangedValue ==
            IF IsNaN(changedValue) \/ Lt(changedValue, Zero) THEN Zero
            ELSE changedValue
        total ==
            IF changedKey = "total" THEN validChangedValue
            ELSE IF percentages[changedKey] # Zero
                 THEN Mul(validChangedValue, percentages[changedKey])
                 ELSE Zero
        toz == [a |-> Mul(percentages.a, total),
                b |-> Mul(percentages.b, total),
                c |-> Mul(percentages.c, total),
                d |-> Mul(percentages.d, total),
                total |-> total]
        charikCount_ ==
            IF totalPerCharikRef # Zero THEN Div(total, totalPerCharikRef)
            ELSE Zero
    IN  [toz |-> toz, charikCount |-> charikCount_]

\* Mutant: an edited total is divided by the unit-total.
calculateFromOneValue_TotalPerUnit(changedKey, changedValue, percentages, totalPerCharikRef) ==
    LET validChangedValue ==
            IF IsNaN(changedValue) \/ Lt(changedValue, Zero) THEN Zero
            ELSE changedValue
        total ==
            IF changedKey = "total" THEN Div(validChangedValue, totalPerCharikRef)
            ELSE IF percentages[changedKey] # Zero
                 THEN Div(validChangedValue, percentages[changedKey])
                 ELSE Zero
        toz == [a |-> Mul(percentages.a, total),
                b |-> Mul(percentages.b, total),
                c |-> Mul(percentages.c, total),
                d |-> Mul(percentages.d, total),
                total |-> total]
        charikCount_ ==
            IF totalPerCharikRef # Zero THEN Div(total, totalPerCharikRef)
            ELSE Zero
    IN  [toz |-> toz, charikCount |-> charikCount_]

\* Mutant: the implied count is clamped to 1 inside the calculator.
calculateFromOneValue_Clamps(changedKey, changedValue, percentages, totalPerCharikRef) ==
    LET validChangedValue ==
            IF IsNaN(changedValue) \/ Lt(changedValue, Zero) THEN Zero
            ELSE changedValue
        total ==
            IF changedKey = "total" THEN validChangedValue
            ELSE IF percentages[changedKey] # Zero
                 THEN Div(validChangedValue, percentages[changedKey])
                 ELSE Zero
        toz == [a |-> Mul(percentages.a, total),
                b |-> Mul(percentages.b, total),
                c |-> Mul(percentages.c, total),
                d |-> Mul(percentages.d, total),
                total |-> total]
        charikCount_ ==
            IF totalPerCharikRef # Zero THEN MathMax(One, Div(total, totalPerCharikRef))
            ELSE Zero
    IN  [toz |-> toz, charikCount |-> charikCount_]

\* Mutant: no guard against a zero weight.
calculateFromOneValue_NoZeroGuard(changedKey, changedValue, percentages, totalPerCharikRef) ==
    LET validChangedValue ==
            IF IsNaN(changedValue) \/ Lt(changedValue, Zero) THEN Zero
            ELSE changedValue
        total ==
            IF changedKey = "total" THEN validChangedValue
            ELSE Div(validChangedValue, percentages[changedKey])
        toz == [a |-> Mul(percentages.a, total),
                b |-> Mul(percentages.b, total),
                c |-> Mul(percentages.c, total),
                d |-> Mul(percentages.d, total),
                total |-> total]
        charikCount_ ==
            IF totalPerCharikRef # Zero THEN Div(total, totalPerCharikRef)
            ELSE Zero
    IN  [toz |-> toz, charikCount |-> charikCount_]

calculateFromOneValue(changedKey, changedValue, percentages, totalPerCharikRef) ==
    LET validChangedValue ==
            IF IsNaN(changedValue) \/ Lt(changedValue, Zero) THEN Zero
            ELSE changedValue
        total ==
            IF changedKey = "total" THEN validChangedValue
            ELSE IF percentages[changedKey] # Zero
                 THEN Div(validChangedValue, percentages[changedKey])
                 ELSE Zero
        toz == [a |-> Mul(percentages.a, total),
                b |-> Mul(percentages.b, total),
                c |-> Mul(percentages.c, total),
                d |-> Mul(percentages.d, total),
                total |-> total]
        charikCount_ ==
            IF totalPerCharikRef # Zero THEN Div(total, totalPerCharikRef)
            ELSE Zero
    IN  [toz |-> toz, charikCount |-> charikCount_]

(***************************************************************************)
(* State of App (lines 158-175, 259), of React's scheduling of the effect, *)
(* and of the calculator calls checked on their own.                       *)
(***************************************************************************)
VARIABLES
    charikCount,            \* useState(1), line 158
    altToz,                 \* line 160
    ustToz,                 \* line 164
    isCharikModalOpen,      \* line 169
    tempCharikModalValue,   \* line 170
    isTozModalOpen,         \* line 173
    currentEditingTozKey,   \* line 174, "null" for null
    tempTozModalValue,      \* line 175
    editingTozType,         \* line 259, "null" for null
    effectPending,          \* the last render changed the effect's dependency
    effectRuns,             \* runs of the effect since the last event
    lastKind,               \* history: the last event ...
    lastKey,                \* ... the field it edited ("null" if none)
    lastValue,              \* ... the value it confirmed (NaN if none)
    pre,                    \* ... and the state triple it started from
    fnArgs,                 \* a calculator call: its arguments
    fnResult                \* ... and what it returned

appVars == <<charikCount, altToz, ustToz, isCharikModalOpen, tempCharikModalValue,
             isTozModalOpen, currentEditingTozKey, tempTozModalValue,
             editingTozType, effectPending, effectRuns>>

histVars == <<lastKind, lastKey, lastValue, pre>>

fnVars == <<fnArgs, fnResult>>

vars == <<appVars, histVars, fnVars>>

triple == [charikCount |-> charikCount, altToz |-> altToz, ustToz |-> ustToz]

\* What a user confirms in a modal, parseFloat's result (lines 114, 140):
\* NaN, -1, 0, 1/2, 1, 2 and the multiples of 39.
InputValues ==
    {NaN}
        \cup {Rat(n, 2) : n \in {-2, 0, 1, 2, 4}}
        \cup {Int2Rat(39 * k) : k \in 1 .. MaxMultiple}

\* The numbers a calculator is called with: those and the two infinities.
CalcValues == InputValues \cup {PosInf, NegInf}

NoFnArgs == [count |-> NaN, key |-> "null", value |-> NaN,
             percentages |-> ALT_PERCENTAGES, totalPerCharik |-> Zero]

NoFnResult == [fn |-> "none", toz |-> calculateFromCharikCount(Zero, ALT_PERCENTAGES, Zero),
               charikCount |-> NaN]

\* Lines 158-175 and 259, after the effect's run on mount.
InitApp ==
    /\ charikCount = One
    /\ altToz = calculateFromCharikCount(One, ALT_PERCENTAGES, ALT_TOTAL_PER_CHARIK)
    /\ ustToz = calculateFromCharikCount(One, UST_PERCENTAGES, UST_TOTAL_PER_CHARIK)
    /\ isCharikModalOpen = FALSE
    /\ tempCharikModalValue = Zero
    /\ isTozModalOpen = FALSE
    /\ currentEditingTozKey = "null"
    /\ tempTozModalValue = Zero
    /\ editingTozType = "null"
    /\ effectPending = FALSE
    /\ effectRuns = 0
    /\ lastKind = "mount"
    /\ lastKey = "null"
    /\ lastValue = NaN
    /\ pre = triple

Init ==
    /\ InitApp
    /\ fnArgs = NoFnArgs
    /\ fnResult = NoFnResult

\* History of an event: what it was and the triple it started from.
Record(kind, key, value) ==
    /\ lastKind' = kind
    /\ lastKey' = key
    /\ lastValue' = value
    /\ pre' = triple

\* Mutant: no dependency array, the effect is scheduled after every render.
DepsChanged_Always(prev, next) == TRUE

\* The dependency array [charikCount] of line 182, compared by Object.is.
DepsChanged(prev, next) == prev # next

\* The render after an event handler: the effect is scheduled iff its
\* dependency changed.
Render ==
    /\ effectPending' = DepsChanged(charikCount, charikCount')
    /\ effectRuns' = 0

\* An event is handled only once the effects of the previous render ran.
Settled == ~effectPending

\* The modal's overlay (line 121) covers the inputs that open a modal.
NoModalOpen == ~isCharikModalOpen /\ ~isTozModalOpen

\* Mutant: the effect recomputes altToz only.
RecomputeEffect_AltOnly ==
    /\ effectPending
    /\ altToz' = calculateFromCharikCount(charikCount, ALT_PERCENTAGES, ALT_TOTAL_PER_CHARIK)
    /\ effectPending' = FALSE
    /\ effectRuns' = effectRuns + 1
    /\ UNCHANGED <<charikCount, ustToz, isCharikModalOpen, tempCharikModalValue,
                   isTozModalOpen, currentEditingTozKey, tempTozModalValue, editingTozType>>
    /\ UNCHANGED <<histVars, fnVars>>

\* Mutant: the effect also sets its own dependency, so it is scheduled again.
RecomputeEffect_Retriggers ==
    /\ effectPending
    /\ altToz' = calculateFromCharikCount(charikCount, ALT_PERCENTAGES, ALT_TOTAL_PER_CHARIK)
    /\ ustToz' = calculateFromCharikCount(charikCount, UST_PERCENTAGES, UST_TOTAL_PER_CHARIK)
    /\ effectPending' = TRUE
    /\ effectRuns' = IF effectRuns < 2 THEN effectRuns + 1 ELSE effectRuns
    /\ UNCHANGED <<charikCount, isCharikModalOpen, tempCharikModalValue, isTozModalOpen,
                   currentEditingTozKey, tempTozModalValue, editingTozType>>
    /\ UNCHANGED <<histVars, fnVars>>

\* useEffect(..., [charikCount]), lines 179-182
RecomputeEffect ==
    /\ effectPending
    /\ altToz' = calculateFromCharikCount(charikCount, ALT_PERCENTAGES, ALT_TOTAL_PER_CHARIK)
    /\ ustToz' = calculateFromCharikCount(charikCount, UST_PERCENTAGES, UST_TOTAL_PER_CHARIK)
    /\ effectPending' = FALSE
    /\ effectRuns' = effectRuns + 1
    /\ UNCHANGED <<charikCount, isCharikModalOpen, tempCharikModalValue, isTozModalOpen,
                   currentEditingTozKey, tempTozModalValue, editingTozType>>
    /\ UNCHANGED <<histVars, fnVars>>

\* Mutant: no isNaN guard before Math.max.
handleCharikChange_NoNaNGuard(value) ==
    /\ charikCount' = MathMax(One, value)
    /\ UNCHANGED <<altToz, ustToz>>

\* handleCharikChange, lines 188-191
handleCharikChange(value) ==
    LET newValue == IF IsNaN(value) THEN Zero ELSE value
    IN  /\ charikCount' = MathMax(One, newValue)
        /\ UNCHANGED <<altToz, ustToz>>

\* Mutant: the implied count is stored without Math.max(1, .).
handleAltChange_NoClamp(key, value) ==
    LET r == calculateFromOneValue(key, value, ALT_PERCENTAGES, ALT_TOTAL_PER_CHARIK)
    IN  /\ charikCount' = r.charikCount
        /\ altToz' = r.toz
        /\ UNCHANGED ustToz

\* handleAltChange, lines 199-208
handleAltChange(key, value) ==
    LET r == calculateFromOneValue(key, value, ALT_PERCENTAGES, ALT_TOTAL_PER_CHARIK)
    IN  /\ charikCount' = MathMax(One, r.charikCount)
        /\ altToz' = r.toz
        /\ UNCHANGED ustToz

\* handleUstChange, lines 216-225
handleUstChange(key, value) ==
    LET r == calculateFromOneValue(key, value, UST_PERCENTAGES, UST_TOTAL_PER_CHARIK)
    IN  /\ charikCount' = MathMax(One, r.charikCount)
        /\ ustToz' = r.toz
        /\ UNCHANGED altToz

\* handleReset, lines 230-232 (the button of line 343)
handleReset ==
    /\ Settled
    /\ charikCount' = One
    /\ UNCHANGED <<altToz, ustToz>>
    /\ Render
    /\ Record("reset", "null", NaN)
    /\ UNCHANGED <<isCharikModalOpen, tempCharikModalValue, isTozModalOpen,
                   currentEditingTozKey, tempTozModalValue, editingTozType>>
    /\ UNCHANGED fnVars

\* openTozModal, lines 240-250 (the click of line 315)
openTozModal(key, type) ==
    /\ Settled
    /\ NoModalOpen
    /\ currentEditingTozKey' = key
    /\ tempTozModalValue' = (IF type = "alt" THEN altToz ELSE ustToz)[key]
    /\ isTozModalOpen' = TRUE
    /\ editingTozType' = (IF type = "alt" THEN "alt" ELSE "ust")
    /\ UNCHANGED <<charikCount, altToz, ustToz, isCharikModalOpen, tempCharikModalValue>>
    /\ Render
    /\ Record(IF type = "alt" THEN "openAlt" ELSE "openUst", key, NaN)
    /\ UNCHANGED fnVars

\* closeTozModal's assignments, lines 252-257
closeTozModal ==
    /\ isTozModalOpen' = FALSE
    /\ currentEditingTozKey' = "null"
    /\ tempTozModalValue' = Zero
    /\ editingTozType' = "null"

\* The toz modal is rendered, so its buttons exist (line 372).
TozModalRendered == isTozModalOpen /\ currentEditingTozKey # "null"

\* The modal's cancel button (onClose, lines 134 and 375)
cancelTozModal ==
    /\ Settled
    /\ TozModalRendered
    /\ closeTozModal
    /\ UNCHANGED <<charikCount, altToz, ustToz, isCharikModalOpen, tempCharikModalValue>>
    /\ Render
    /\ Record("closeToz", "null", NaN)
    /\ UNCHANGED fnVars

\* Mutant: the two branches of the dispatch are exchanged.
handleTozModalConfirm_Swapped(confirmedValue) ==
    /\ Settled
    /\ TozModalRendered
    /\ IF currentEditingTozKey # "null" /\ editingTozType # "null"
       THEN IF editingTozType = "alt"
            THEN handleUstChange(currentEditingTozKey, confirmedValue)
            ELSE handleAltChange(currentEditingTozKey, confirmedValue)
       ELSE UNCHANGED <<charikCount, altToz, ustToz>>
    /\ closeTozModal
    /\ UNCHANGED <<isCharikModalOpen, tempCharikModalValue>>
    /\ Render
    /\ Record(editingTozType, currentEditingTozKey, confirmedValue)
    /\ UNCHANGED fnVars

\* handleTozModalConfirm, lines 261-270
handleTozModalConfirm(confirmedValue) ==
    /\ Settled
    /\ TozModalRendered
    /\ IF currentEditingTozKey # "null" /\ editingTozType # "null"
       THEN IF editingTozType = "alt"
            THEN handleAltChange(currentEditingTozKey, confirmedValue)
            ELSE handleUstChange(currentEditingTozKey, confirmedValue)
       ELSE UNCHANGED <<charikCount, altToz, ustToz>>
    /\ closeTozModal
    /\ UNCHANGED <<isCharikModalOpen, tempCharikModalValue>>
    /\ Render
    /\ Record(editingTozType, currentEditingTozKey, confirmedValue)
    /\ UNCHANGED fnVars

\* openCharikModal, lines 275-278 (the click of line 340)
openCharikModal ==
    /\ Settled
    /\ NoModalOpen
    /\ tempCharikModalValue' = charikCount
    /\ isCharikModalOpen' = TRUE
    /\ UNCHANGED <<charikCount, altToz, ustToz, isTozModalOpen, currentEditingTozKey,
                   tempTozModalValue, editingTozType>>
    /\ Render
    /\ Record("openCharik", "null", NaN)
    /\ UNCHANGED fnVars

\* closeCharikModal's assignments, lines 280-283
closeCharikModal ==
    /\ isCharikModalOpen' = FALSE
    /\ tempCharikModalValue' = Zero

\* Mutant: cancelling the count modal also resets the count.
cancelCharikModal_Resets ==
    /\ Settled
    /\ isCharikModalOpen
    /\ closeCharikModal
    /\ charikCount' = One
    /\ UNCHANGED <<altToz, ustToz, isTozModalOpen, currentEditingTozKey,
                   tempTozModalValue, editingTozType>>
    /\ Render
    /\ Record("closeCharik", "null", NaN)
    /\ UNCHANGED fnVars

\* The modal's cancel button (onClose, lines 134 and 364)
cancelCharikModal ==
    /\ Settled
    /\ isCharikModalOpen
    /\ closeCharikModal
    /\ UNCHANGED <<charikCount, altToz, ustToz, isTozModalOpen, currentEditingTozKey,
                   tempTozModalValue, editingTozType>>
    /\ Render
    /\ Record("closeCharik", "null", NaN)
    /\ UNCHANGED fnVars

\* handleCharikModalConfirm, lines 285-288
handleCharikModalConfirm(confirmedValue) ==
    /\ Settled
    /\ isCharikModalOpen
    /\ handleCharikChange(confirmedValue)
    /\ closeCharikModal
    /\ UNCHANGED <<isTozModalOpen, currentEditingTozKey, tempTozModalValue, editingTozType>>
    /\ Render
    /\ Record("charik", "null", confirmedValue)
    /\ UNCHANGED fnVars

Next ==
    \/ RecomputeEffect
    \/ handleReset
    \/ \E key \in TozKeys, type \in {"alt", "ust"} : openTozModal(key, type)
    \/ cancelTozModal
    \/ \E v \in InputValues : handleTozModalConfirm(v)
    \/ openCharikModal
    \/ cancelCharikModal
    \/ \E v \in InputValues : handleCharikModalConfirm(v)

Spec == Init /\ [][Next]_vars

\* A run of the scheduled effect, seen from React's scheduler: the step that
\* takes the effect from scheduled to done (RecomputeEffect is the only one).
EffectStep == effectPending /\ effectPending' = FALSE

\* React runs a scheduled effect after the render that scheduled it: the
\* effect's run is not postponed forever.
SpecFair == Spec /\ WF_effectPending(EffectStep)

(***************************************************************************)
(* The calculators on their own: a call with arguments drawn from bounded  *)
(* sets, and its result.                                                   *)
(***************************************************************************)
\* Weight sets (fractions summing to 1): the two of the program, an even
\* split and one with zero weights.
WeightSets ==
    {ALT_PERCENTAGES, UST_PERCENTAGES,
     [a |-> Rat(1, 4), b |-> Rat(1, 4), c |-> Rat(1, 4), d |-> Rat(1, 4)],
     [a |-> One, b |-> Zero, c |-> Zero, d |-> Zero]}

UnitTotals == {Zero, One, UST_TOTAL_PER_CHARIK, ALT_TOTAL_PER_CHARIK}

InitCalc ==
    /\ InitApp
    /\ \E W \in WeightSets, T \in UnitTotals :
          \/ \E n \in CalcValues :
                fnArgs = [count |-> n, key |-> "null", value |-> NaN,
                          percentages |-> W, totalPerCharik |-> T]
          \/ \E k \in TozKeys, v \in CalcValues :
                fnArgs = [count |-> NaN, key |-> k, value |-> v,
                          percentages |-> W, totalPerCharik |-> T]
    /\ fnResult = NoFnResult

callForward ==
    /\ fnResult.fn = "none"
    /\ fnArgs.key = "null"
    /\ fnResult' = [fn |-> "forward",
                    toz |-> calculateFromCharikCount(fnArgs.count, fnArgs.percentages,
                                                     fnArgs.totalPerCharik),
                    charikCount |-> NaN]
    /\ UNCHANGED <<appVars, histVars, fnArgs>>

callInverse ==
    /\ fnResult.fn = "none"
    /\ fnArgs.key # "null"
    /\ LET r == calculateFromOneValue(fnArgs.key, fnArgs.value, fnArgs.percentages,
                                      fnArgs.totalPerCharik)
       IN  fnResult' = [fn |-> "inverse", toz |-> r.toz, charikCount |-> r.charikCount]
    /\ UNCHANGED <<appVars, histVars, fnArgs>>

\* calculateFromOneValue("total", .) applied to the total the forward
\* calculator returned.
callRoundTrip ==
    /\ fnResult.fn = "forward"
    /\ LET r == calculateFromOneValue("total", fnResult.toz.total, fnArgs.percentages,
                                      fnArgs.totalPerCharik)
       IN  fnResult' = [fn |-> "roundtrip", toz |-> r.toz, charikCount |-> r.charikCount]
    /\ UNCHANGED <<appVars, histVars, fnArgs>>

NextCalc ==
    \/ callForward
    \/ callInverse
    \/ callRoundTrip

SpecCalc == InitCalc /\ [][NextCalc]_vars

(***************************************************************************)
(* Properties                                                              *)
(***************************************************************************)
Sum4(toz) == Add(Add(Add(toz.a, toz.b), toz.c), toz.d)

WeightsOf(kind) == IF kind = "alt" THEN ALT_PERCENTAGES ELSE UST_PERCENTAGES

UnitTotalOf(kind) == IF kind = "alt" THEN ALT_TOTAL_PER_CHARIK ELSE UST_TOTAL_PER_CHARIK

OtherKind(kind) == IF kind = "alt" THEN "ust" ELSE "alt"

Displayed(kind) == IF kind = "alt" THEN altToz ELSE ustToz

DisplayedBefore(kind) == IF kind = "alt" THEN pre.altToz ELSE pre.ustToz

Forward(kind, count) == calculateFromCharikCount(count, WeightsOf(kind), UnitTotalOf(kind))

\* The last event was a confirmed edit of one field of a breakdown.
TozEdit == lastKind \in {"alt", "ust"}

\* What the inverse calculator returns for the last edit.
LastInverse ==
    calculateFromOneValue(lastKey, lastValue, WeightsOf(lastKind), UnitTotalOf(lastKind))

\* A number (not NaN) that is >= 1.
AtLeastOne(x) == ~IsNaN(x) /\ ~Lt(x, One)

\* A finite number >= 0.
FiniteNonNegative(x) == IsFinite(x) /\ ~Lt(x, Zero)

AllZero == [a |-> Zero, b |-> Zero, c |-> Zero, d |-> Zero, total |-> Zero]

\* C1 (as stated): once a confirmed edit of one field of breakdown A has
\* settled, the displayed A is the breakdown the inverse calculator returned
\* for that edit; editing Ust "total" to 0 leaves Ust all zero with count 1.
C1_Original ==
    Settled /\ TozEdit =>
        /\ Displayed(lastKind) = LastInverse.toz
        /\ (lastKind = "ust" /\ lastKey = "total" /\ lastValue = Zero
                => ustToz = AllZero /\ charikCount = One)

\* C2 (as stated): once a confirmed edit of one field of breakdown A has
\* settled, the other breakdown B has the value it had before the edit.
C2_Original ==
    Settled /\ TozEdit =>
        Displayed(OtherKind(lastKind)) = DisplayedBefore(OtherKind(lastKind))

\* C2 (amended): once a confirmed edit of one field of breakdown A has
\* settled, the other breakdown B has the value it had before the edit if the
\* edit left the stored unit count unchanged, and otherwise B is the forward
\* calculation from the new stored unit count.
C2_Amended ==
    Settled /\ TozEdit =>
        Displayed(OtherKind(lastKind)) =
            IF charikCount = pre.charikCount
            THEN DisplayedBefore(OtherKind(lastKind))
            ELSE Forward(OtherKind(lastKind), charikCount)

\* An Alt edit changed the stored count and Ust was recomputed.
C2_Witness ==
    /\ Settled
    /\ lastKind = "alt"
    /\ charikCount # pre.charikCount
    /\ ustToz # pre.ustToz
    /\ ustToz = Forward("ust", charikCount)

\* C3 (as stated): after a Reset has settled, charikCount = 1 and both
\* breakdowns are the forward calculation from 1 (totals 121 and 45).
C3_Original ==
    Settled /\ lastKind = "reset" =>
        /\ charikCount = One
        /\ altToz = Forward("alt", One)
        /\ altToz.total = Int2Rat(121)
        /\ ustToz = Forward("ust", One)
        /\ ustToz.total = Int2Rat(45)

\* C4 (as stated): once a confirmed edit of the unit count with value v has
\* settled, the stored count is max(1, v) (NaN as 0) and both breakdowns are
\* the forward calculation from the stored count.
C4_Original ==
    Settled /\ lastKind = "charik" =>
        /\ charikCount = MathMax(One, IF IsNaN(lastValue) THEN Zero ELSE lastValue)
        /\ altToz = Forward("alt", charikCount)
        /\ ustToz = Forward("ust", charikCount)

\* C5 (as stated): in every settled state both breakdowns are the forward
\* calculation from the stored unit count.
C5_Original ==
    Settled =>
        /\ altToz = Forward("alt", charikCount)
        /\ ustToz = Forward("ust", charikCount)

\* A breakdown of the given kind split by its weights, of a total between 0
\* and one unit's total.
WithinOneUnit(kind, toz) ==
    /\ \A k \in ComponentKeys : toz[k] = Mul(WeightsOf(kind)[k], toz.total)
    /\ ~Lt(toz.total, Zero)
    /\ ~Lt(UnitTotalOf(kind), toz.total)

\* C5 (amended): in every settled state where the stored unit count is not 1
\* both breakdowns are the forward calculation from the stored unit count;
\* where it is 1, each breakdown is split by its weights and has a total
\* between 0 and its unit-total (it may be the result of an inverse edit
\* whose implied count was below 1).
C5_Amended ==
    Settled =>
        /\ charikCount # One =>
              /\ altToz = Forward("alt", charikCount)
              /\ ustToz = Forward("ust", charikCount)
        /\ charikCount = One =>
              /\ WithinOneUnit("alt", altToz)
              /\ WithinOneUnit("ust", ustToz)

\* A settled state after an edit of a breakdown that raised the count above 1
\* and ran the effect.
C5_Witness ==
    /\ Settled
    /\ TozEdit
    /\ Lt(One, charikCount)
    /\ effectRuns = 1
    /\ altToz = Forward("alt", charikCount)
    /\ ustToz = Forward("ust", charikCount)

\* C6: in every reachable state the stored unit count is a number >= 1, and
\* it is 1 in the initial state.
C6_CountAtLeastOne ==
    /\ AtLeastOne(charikCount)
    /\ lastKind = "mount" => charikCount = One

\* From a count above 1, an edit of a breakdown confirmed a negative value.
C6_Witness ==
    /\ TozEdit
    /\ Lt(lastValue, Zero)
    /\ Lt(One, pre.charikCount)
    /\ charikCount = One

\* The implied unit count of an edit, from the claim's words: the value
\* (negative or NaN as 0), divided by the field's weight unless the field is
\* the total, divided by the unit-total.
ImpliedCount(kind, key, value) ==
    LET v == IF IsNaN(value) \/ Lt(value, Zero) THEN Zero ELSE value
        total == IF key = "total" THEN v ELSE Div(v, WeightsOf(kind)[key])
    IN  Div(total, UnitTotalOf(kind))

\* C7: after a confirmed edit of one field of a breakdown the stored unit
\* count is max(1, c), c being the implied count the inverse calculator
\* returned, which is unclamped (0 for value 0, 200/121 for Alt b = 78).
C7_ClampedImpliedCount ==
    TozEdit =>
        /\ charikCount = MathMax(One, ImpliedCount(lastKind, lastKey, lastValue))
        /\ LastInverse.charikCount = ImpliedCount(lastKind, lastKey, lastValue)
        /\ lastValue = Zero => LastInverse.charikCount = Zero /\ charikCount = One
        /\ lastKind = "alt" /\ lastKey = "b" /\ lastValue = Int2Rat(78)
              => LastInverse.charikCount = Rat(200, 121) /\ charikCount = Rat(200, 121)

\* Alt b was edited to 78.
C7_Witness ==
    /\ Settled
    /\ lastKind = "alt"
    /\ lastKey = "b"
    /\ lastValue = Int2Rat(78)
    /\ charikCount = Rat(200, 121)

\* C8: in every reachable state each displayed breakdown's total is the sum
\* of its four components.
C8_TotalIsSum ==
    /\ altToz.total = Sum4(altToz)
    /\ ustToz.total = Sum4(ustToz)

\* Alt shows the result of an edit of the single field c, not a forward value.
C8_Witness ==
    /\ Settled
    /\ lastKind = "alt"
    /\ lastKey = "c"
    /\ altToz = LastInverse.toz
    /\ altToz # Forward("alt", charikCount)
    /\ altToz.total # Zero

\* C9: for a finite unit count n >= 0 the forward calculator returns
\* total = T * n and each component = its weight * total, the components
\* summing to total; with the Alt constants and n = 2: 242, 121, 94.38,
\* 14.52, 12.10.
C9_Forward ==
    fnResult.fn = "forward" /\ FiniteNonNegative(fnArgs.count) =>
        /\ fnResult.toz.total = Mul(fnArgs.totalPerCharik, fnArgs.count)
        /\ \A k \in ComponentKeys :
              fnResult.toz[k] = Mul(fnArgs.percentages[k], fnResult.toz.total)
        /\ Sum4(fnResult.toz) = fnResult.toz.total
        /\ /\ fnArgs.percentages = ALT_PERCENTAGES
           /\ fnArgs.totalPerCharik = ALT_TOTAL_PER_CHARIK
           /\ fnArgs.count = Int2Rat(2)
           => fnResult.toz = [a |-> Int2Rat(121), b |-> Rat(9438, 100),
                              c |-> Rat(1452, 100), d |-> Rat(1210, 100),
                              total |-> Int2Rat(242)]

\* The forward calculator was called with the Alt constants and n = 2.
C9_Witness ==
    /\ fnResult.fn = "forward"
    /\ fnArgs.percentages = ALT_PERCENTAGES
    /\ fnArgs.totalPerCharik = ALT_TOTAL_PER_CHARIK
    /\ fnArgs.count = Int2Rat(2)
    /\ fnResult.toz.total = Int2Rat(242)

\* C10: for a component field k of non-zero weight and a finite value
\* v >= 0 the inverse calculator resolves total = v / W[k], recomputes the
\* four components from that total and returns toz[k] = v; with the Alt
\* constants, b = 78 gives 200, 100, 78, 12, 10 and implied count 200/121.
C10_InverseComponent ==
    /\ fnResult.fn = "inverse"
    /\ fnArgs.key \in ComponentKeys
    /\ fnArgs.percentages[fnArgs.key] # Zero
    /\ FiniteNonNegative(fnArgs.value)
    =>
        /\ fnResult.toz.total = Div(fnArgs.value, fnArgs.percentages[fnArgs.key])
        /\ \A k \in ComponentKeys :
              fnResult.toz[k] = Mul(fnArgs.percentages[k], fnResult.toz.total)
        /\ fnResult.toz[fnArgs.key] = fnArgs.value
        /\ /\ fnArgs.percentages = ALT_PERCENTAGES
           /\ fnArgs.totalPerCharik = ALT_TOTAL_PER_CHARIK
           /\ fnArgs.key = "b"
           /\ fnArgs.value = Int2Rat(78)
           => /\ fnResult.toz = [a |-> Int2Rat(100), b |-> Int2Rat(78),
                                 c |-> Int2Rat(12), d |-> Int2Rat(10),
                                 total |-> Int2Rat(200)]
              /\ fnResult.charikCount = Rat(200, 121)

\* The inverse calculator was called with the Alt constants for b = 78.
C10_Witness ==
    /\ fnResult.fn = "inverse"
    /\ fnArgs.percentages = ALT_PERCENTAGES
    /\ fnArgs.totalPerCharik = ALT_TOTAL_PER_CHARIK
    /\ fnArgs.key = "b"
    /\ fnArgs.value = Int2Rat(78)
    /\ fnResult.toz.total = Int2Rat(200)

\* C11: for a value v >= 0 the inverse calculator, given an edit of "total",
\* returns total = v exactly and (v finite) the four components W[k] * v.
C11_InverseTotal ==
    /\ fnResult.fn = "inverse"
    /\ fnArgs.key = "total"
    /\ ~IsNaN(fnArgs.value)
    /\ ~Lt(fnArgs.value, Zero)
    =>
        /\ fnResult.toz.total = fnArgs.value
        /\ IsFinite(fnArgs.value) =>
              \A k \in ComponentKeys :
                  fnResult.toz[k] = Mul(fnArgs.percentages[k], fnArgs.value)

\* The inverse calculator was called for "total" = 78 with the Ust constants.
C11_Witness ==
    /\ fnResult.fn = "inverse"
    /\ fnArgs.key = "total"
    /\ fnArgs.value = Int2Rat(78)
    /\ fnArgs.percentages = UST_PERCENTAGES
    /\ fnArgs.totalPerCharik = UST_TOTAL_PER_CHARIK
    /\ fnResult.toz.total = Int2Rat(78)
    /\ fnResult.toz.b = Rat(468, 10)

\* C12: for a finite unit count n >= 0, the inverse calculator applied to
\* "total" = the forward calculator's total returns the forward calculator's
\* breakdown field by field, and an implied unit count of n when the
\* unit-total is not zero (so for both fixed pairs of weights and unit-total).
C12_RoundTrip ==
    fnResult.fn = "roundtrip" /\ FiniteNonNegative(fnArgs.count) =>
        /\ \A k \in TozKeys :
              fnResult.toz[k] =
                  calculateFromCharikCount(fnArgs.count, fnArgs.percentages,
                                           fnArgs.totalPerCharik)[k]
        /\ fnResult.toz.total = Mul(fnArgs.totalPerCharik, fnArgs.count)
        /\ fnArgs.totalPerCharik # Zero => fnResult.charikCount = fnArgs.count

\* The round trip was made with the Alt constants from the count 1/2.
C12_Witness ==
    /\ fnResult.fn = "roundtrip"
    /\ fnArgs.percentages = ALT_PERCENTAGES
    /\ fnArgs.totalPerCharik = ALT_TOTAL_PER_CHARIK
    /\ fnArgs.count = Rat(1, 2)
    /\ fnResult.charikCount = Rat(1, 2)
    /\ fnResult.toz.total = Rat(121, 2)

\* Every number of a calculator's result is finite.
FiniteResult ==
    /\ \A k \in TozKeys : IsFinite(fnResult.toz[k])
    /\ fnResult.fn = "inverse" => IsFinite(fnResult.charikCount)

\* C13: the calculators degrade to zero.  A negative or NaN unit count gives
\* a forward breakdown of zeros; a negative or NaN edited value gives an
\* inverse result of zeros with implied count 0; an edit of a field of weight
\* 0 resolves the total to 0; a unit-total of 0 gives the implied count 0;
\* and no call whose argument is not +Infinity returns NaN or an infinity.
C13_DegradeToZero ==
    /\ fnResult.fn = "forward" /\ (IsNaN(fnArgs.count) \/ Lt(fnArgs.count, Zero))
          => fnResult.toz = AllZero
    /\ fnResult.fn = "inverse" /\ (IsNaN(fnArgs.value) \/ Lt(fnArgs.value, Zero))
          => fnResult.toz = AllZero /\ fnResult.charikCount = Zero
    /\ /\ fnResult.fn = "inverse"
       /\ fnArgs.key \in ComponentKeys
       /\ fnArgs.percentages[fnArgs.key] = Zero
       => fnResult.toz.total = Zero
    /\ fnResult.fn = "inverse" /\ fnArgs.totalPerCharik = Zero
          => fnResult.charikCount = Zero
    /\ /\ fnResult.fn \in {"forward", "inverse"}
       /\ fnArgs.count # PosInf
       /\ fnArgs.value # PosInf
       => FiniteResult

\* A field of weight 0 was edited to a positive value with unit-total 0.
C13_Witness ==
    /\ fnResult.fn = "inverse"
    /\ fnArgs.key \in ComponentKeys
    /\ fnArgs.percentages[fnArgs.key] = Zero
    /\ Lt(Zero, fnArgs.value)
    /\ fnArgs.totalPerCharik = Zero
    /\ fnResult.toz = AllZero
    /\ fnResult.charikCount = Zero

\* The last event was one that sets the stored unit count.
CountEvent == lastKind \in {"charik", "alt", "ust", "reset"}

\* What the handler of the last event left in the breakdown of a kind: the
\* inverse result for the breakdown it edited, the previous value otherwise.
StoredByHandler(kind) ==
    IF lastKind = kind THEN LastInverse.toz ELSE DisplayedBefore(kind)

\* C14: after a count edit, an edit of a breakdown or a reset, the effect is
\* scheduled exactly when the stored count differs from the one before the
\* event; once it has run (once) both breakdowns are the forward calculation
\* from the new count, whatever the handler stored; when the count is
\* unchanged the effect does not run and the breakdowns are those the handler
\* left.
C14_ChangeTriggered ==
    CountEvent =>
        /\ effectPending <=> (charikCount # pre.charikCount /\ effectRuns = 0)
        /\ effectPending =>
              /\ altToz = StoredByHandler("alt")
              /\ ustToz = StoredByHandler("ust")
        /\ Settled /\ charikCount # pre.charikCount =>
              /\ effectRuns = 1
              /\ altToz = Forward("alt", charikCount)
              /\ ustToz = Forward("ust", charikCount)
        /\ charikCount = pre.charikCount =>
              /\ effectRuns = 0
              /\ altToz = StoredByHandler("alt")
              /\ ustToz = StoredByHandler("ust")

\* An edit of a breakdown changed the count and the effect has overwritten
\* the breakdown the handler stored.
C14_Witness ==
    /\ Settled
    /\ TozEdit
    /\ charikCount # pre.charikCount
    /\ effectRuns = 1
    /\ Displayed(lastKind) # LastInverse.toz
    /\ Displayed(lastKind) = Forward(lastKind, charikCount)

\* C15: in every settled state, if the stored count is above 1 both
\* breakdowns are the forward calculation from it; a breakdown differs from
\* its forward calculation only when the stored count is 1, and then its
\* total lies between 0 and its unit-total (121, 45) and its components are
\* weight * total.
C15_BoundedStaleness ==
    Settled =>
        /\ Lt(One, charikCount) =>
              /\ altToz = Forward("alt", charikCount)
              /\ ustToz = Forward("ust", charikCount)
        /\ \A kind \in {"alt", "ust"} :
              Displayed(kind) # Forward(kind, charikCount) =>
                  /\ charikCount = One
                  /\ ~Lt(Displayed(kind).total, Zero)
                  /\ ~Lt(UnitTotalOf(kind), Displayed(kind).total)
                  /\ \A k \in ComponentKeys :
                        Displayed(kind)[k] = Mul(WeightsOf(kind)[k], Displayed(kind).total)

\* With the count 1, Ust shows a total strictly between 0 and 45.
C15_Witness ==
    /\ Settled
    /\ charikCount = One
    /\ ustToz # Forward("ust", charikCount)
    /\ Lt(Zero, ustToz.total)
    /\ Lt(ustToz.total, UST_TOTAL_PER_CHARIK)

\* C16: every event settles.  At most one run of the effect follows an event;
\* a scheduled effect does run and the state is then settled; a step taken
\* while the effect is scheduled is the effect's run, which leaves charikCount
\* alone, so the effect is not scheduled again; and in a settled state the
\* effect cannot run and the next event (a reset) can be handled.
C16_Settles ==
    /\ [](effectRuns <= 1 /\ (effectPending => effectRuns = 0))
    /\ (effectPending ~> Settled)
    /\ [][effectPending =>
              /\ charikCount' = charikCount
              /\ Settled'
              /\ effectRuns' = 1
              /\ altToz' = Forward("alt", charikCount)
              /\ ustToz' = Forward("ust", charikCount)
              /\ UNCHANGED histVars]_vars
    /\ [](Settled => ENABLED handleReset /\ ~ENABLED RecomputeEffect)

\* The effect has run once after a reset and the state is settled.
C16_Witness ==
    /\ Settled
    /\ effectRuns = 1
    /\ lastKind = "reset"
    /\ pre.charikCount # One
    /\ altToz # pre.altToz

\* The last event opened the toz modal.
TozOpened == lastKind \in {"openAlt", "openUst"}

\* The breakdown the toz modal was opened on.
OpenedKind == IF lastKind = "openAlt" THEN "alt" ELSE "ust"

\* C17: the toz modal's confirm dispatches to the breakdown and the field the
\* modal was opened on.  After openTozModal(key, value, type) the modal holds
\* that key and type; a confirm(v) that follows applies the inverse edit of
\* that key with v to Alt if type is alt and to Ust if it is ust, and leaves
\* the other breakdown to the effect; the modal can be confirmed only with a
\* key and a type set; and a confirm or a cancel ends with the modal closed
\* and the key and the type null.
C17_Dispatch ==
    /\ [](TozOpened =>
              /\ isTozModalOpen
              /\ currentEditingTozKey = lastKey
              /\ editingTozType = OpenedKind
              /\ tempTozModalValue = Displayed(OpenedKind)[lastKey])
    /\ [](TozModalRendered =>
              currentEditingTozKey \in TozKeys /\ editingTozType \in {"alt", "ust"})
    /\ [][TozOpened /\ lastKind' \in {"alt", "ust"} =>
              LET r == calculateFromOneValue(lastKey, lastValue', WeightsOf(OpenedKind),
                                             UnitTotalOf(OpenedKind))
              IN  /\ lastKind' = OpenedKind
                  /\ lastKey' = lastKey
                  /\ charikCount' = MathMax(One, r.charikCount)
                  /\ IF OpenedKind = "alt"
                     THEN altToz' = r.toz /\ ustToz' = ustToz
                     ELSE ustToz' = r.toz /\ altToz' = altToz]_vars
    /\ [][lastKind' \in {"alt", "ust", "closeToz"} /\ pre' = triple =>
              /\ isTozModalOpen
              /\ ~isTozModalOpen'
              /\ currentEditingTozKey' = "null"
              /\ editingTozType' = "null"
              /\ tempTozModalValue' = Zero]_vars

\* The modal was opened on Ust b and confirmed: Ust holds the inverse result
\* for b, Alt is as before, the modal is closed.
C17_Witness ==
    /\ lastKind = "ust"
    /\ lastKey = "b"
    /\ lastValue = Int2Rat(39)
    /\ effectPending
    /\ ustToz = LastInverse.toz
    /\ altToz = pre.altToz
    /\ ~isTozModalOpen
    /\ currentEditingTozKey = "null"
    /\ editingTozType = "null"

\* The last event opened or cancelled a modal.
ModalEvent == lastKind \in {"openAlt", "openUst", "closeToz", "openCharik", "closeCharik"}

\* C18: opening a modal and cancelling it leave (charikCount, altToz, ustToz)
\* unchanged and schedule no effect; a step that changes the triple is a
\* confirm, a reset or the effect's run.
C18_ModalFrame ==
    /\ [](ModalEvent => triple = pre /\ Settled /\ effectRuns = 0)
    /\ [][triple' # triple =>
              \/ lastKind' \in {"alt", "ust", "charik", "reset"} /\ pre' = triple
              \/ effectPending /\ Settled' /\ UNCHANGED histVars]_vars

\* A modal was cancelled in a state whose Alt breakdown is not the forward
\* calculation from the count: the cancel left it as it was.
C18_Witness ==
    /\ lastKind \in {"closeToz", "closeCharik"}
    /\ triple = pre
    /\ altToz # Forward("alt", charikCount)
    /\ NoModalOpen

====
